---- MODULE Spec2Model ----
(***************************************************************************)
(* Model of pkg/util/httpbackend: the HTTPBackend dispatcher, its          *)
(* configuration (Spec, Server, LoadBalance), server selection and the two *)
(* request paths HandleWithResponse and HandleWithoutResponse; and of the  *)
(* two independent utilities, texttemplate (the meta-template tree and     *)
(* MatchMetaTemplate) and v (the ValidateRecorder).                        *)
(***************************************************************************)
EXTENDS Integers, Sequences, FiniteSets, TLC

VARIABLES
    spec,        \* the *Spec handed to Validate / New
    specErr,     \* result of Spec.Validate:        "unchecked" | "nil" | "error"
    lbErr,       \* result of LoadBalance.Validate: "unchecked" | "nil" | "error"
    b,           \* the *HTTPBackend, NoBackend before New
    calls,       \* one record per request task: its HTTPContext and position
    started,     \* number of Handle* calls begun so far
    selections,  \* number of nextServer calls made so far
    received,    \* backend side: responses delivered, per <<server URL, status code>>
    bgBodies,    \* response bodies owned by background drain goroutines, still open
    metaTemplates, \* texttemplate: the meta templates handed to NewDefault
    engine,      \* texttemplate: the TemplateEngine NewDefault returned, NoEngine before
    matched,     \* texttemplate: the last MatchMetaTemplate call and what it returned
    vr,          \* package v: the *ValidateRecorder
    recorded     \* package v: the last record* call and how it returned

vars == <<spec, specErr, lbErr, b, calls, started, selections, received, bgBodies,
          metaTemplates, engine, matched, vr, recorded>>

\* the state of the dispatcher, and the state of the two utilities
backendVars == <<spec, specErr, lbErr, b, calls, started, selections, received, bgBodies>>
utilVars == <<metaTemplates, engine, matched, vr, recorded>>

----------------------------------------------------------------------------
(* Bounds *)

MaxServers == 3     \* longest configured server list drawn by InitConfig
NumTasks   == 2     \* request tasks that may be in flight at once
MaxCalls   == 3     \* Handle* calls begun in one behaviour
MaxFuncs   == 2     \* ResponseGotFuncs registered in one behaviour
MaxMetas   == 2     \* meta templates handed to NewDefault
MaxTemplateLen == 5 \* characters of a template handed to MatchMetaTemplate
MaxRecords == 3     \* record* calls on one ValidateRecorder

----------------------------------------------------------------------------
(* Configuration values *)

policyRoundRobin == "roundRobin"
policyRandom     == "random"
policyIPHash     == "ipHash"
policyHeaderHash == "headerHash"

\* a policy value that is none of the four (New does not reject it)
policyUnknown    == "leastConn"

Policies == {policyRoundRobin, policyRandom, policyIPHash, policyHeaderHash, policyUnknown}

Urls      == <<"A", "B", "C", "D", "E">>
HeaderKey == "X-Id"

\* net/http status codes used by the handlers
StatusInternalServerError == 500
StatusServiceUnavailable  == 503

\* status codes a backend may answer with (a backend may itself answer 503)
BackendCodes == {200, 503}

\* the error text of a failed client.Do and of a failed http.NewRequest
DoErrText     == "connection refused"
NewReqErrText == "invalid method"

Range(s) == {s[i] : i \in 1..Len(s)}

\* []string values with unique elements (the `unique` validation tag)
TagLists == {<<>>, <<"v1">>, <<"v2">>, <<"v1", "v2">>, <<"v2", "v1">>}

\* Server{URL, Tags}
Server(url, tags) == [URL |-> url, Tags |-> tags]

\* server lists of length n whose i-th server has the i-th URL and any tag list
ServerLists(n) == {[i \in 1..n |-> Server(Urls[i], t[i])] : t \in [1..n -> TagLists]}

LoadBalance(policy, key) == [Policy |-> policy, HeaderHashKey |-> key]

\* Adaptor and MemoryCache: TRUE when the optional spec is given (non-nil)
MkSpec(servers, serversTags, lb, adaptor, cache) ==
    [Servers |-> servers, ServersTags |-> serversTags, LoadBalance |-> lb,
     Adaptor |-> adaptor, MemoryCache |-> cache]

----------------------------------------------------------------------------
(* Spec.pickServers, Spec.Validate, LoadBalance.Validate *)

\* common.StrInSlice
StrInSlice(str, slice) == \E i \in 1..Len(slice) : slice[i] = str

\* variant of allFoundFrom: only the first tag of ServersTags is looked up
allFoundFirstOnly(serversTags, tags, k) ==
    Len(serversTags) = 0 \/ StrInSlice(serversTags[1], tags)

\* the inner loop of pickServers: every tag of ServersTags[k..] is among tags
RECURSIVE allFoundFrom(_, _, _)
allFoundFrom(serversTags, tags, k) ==
    IF k > Len(serversTags) THEN TRUE
    ELSE IF ~StrInSlice(serversTags[k], tags) THEN FALSE
    ELSE allFoundFrom(serversTags, tags, k + 1)

\* the outer loop of pickServers over Servers[k..], appending to acc
RECURSIVE pickLoop(_, _, _)
pickLoop(s, k, acc) ==
    IF k > Len(s.Servers) THEN acc
    ELSE pickLoop(s, k + 1,
                  IF allFoundFrom(s.ServersTags, s.Servers[k].Tags, 1)
                  THEN Append(acc, s.Servers[k]) ELSE acc)

pickServers(s) ==
    LET serverHasTag == \E i \in 1..Len(s.Servers) : Len(s.Servers[i].Tags) # 0
    IN  IF Len(s.ServersTags) = 0 /\ ~serverHasTag
        THEN s.Servers
        ELSE pickLoop(s, 1, <<>>)

\* variant of Spec.Validate: the configured list is tested, not the picked one
SpecValidateConfigured(s) == IF Len(s.Servers) = 0 THEN "error" ELSE "nil"

\* Spec.Validate: "error" or "nil"
SpecValidate(s) == IF Len(pickServers(s)) = 0 THEN "error" ELSE "nil"

\* variant of LoadBalance.Validate: an empty key is an error under any policy
LoadBalanceValidateAnyPolicy(lb) == IF lb.HeaderHashKey = "" THEN "error" ELSE "nil"

\* LoadBalance.Validate: "error" or "nil"
LoadBalanceValidate(lb) ==
    IF lb.Policy = policyHeaderHash /\ lb.HeaderHashKey = "" THEN "error" ELSE "nil"

----------------------------------------------------------------------------
(* uint64 and int arithmetic.  A uint64 is kept as four 16-bit limbs, most  *)
(* significant first; int is 64 bits wide (two's complement).               *)

Half == 65536

\* the uint64 of a small natural number
U64(n) == <<0, 0, 0, n>>

\* variant of AddUint64: the increment is lost
AddUint64Lost(u) == u

\* atomic.AddUint64(&x, 1): the new value, wrapping from 2^64 - 1 to 0
AddUint64(u) ==
    IF u[4] < Half - 1 THEN <<u[1], u[2], u[3], u[4] + 1>>
    ELSE IF u[3] < Half - 1 THEN <<u[1], u[2], u[3] + 1, 0>>
    ELSE IF u[2] < Half - 1 THEN <<u[1], u[2] + 1, 0, 0>>
    ELSE IF u[1] < Half - 1 THEN <<u[1] + 1, 0, 0, 0>>
    ELSE <<0, 0, 0, 0>>

\* u modulo n as unsigned numbers, n > 0
UMod(u, n) ==
    ((((((u[1] % n) * Half + u[2]) % n) * Half + u[3]) % n) * Half + u[4]) % n

\* int(u) < 0: the conversion uint64 -> int keeps the bits, so the top bit
\* becomes the sign
IntNegative(u) == u[1] >= Half \div 2

\* int(u) % n for n > 0.  Go's % truncates toward zero: the result has the
\* sign of int(u).  For a negative int(u) = u - 2^64 the magnitude is 2^64 - u.
IntMod(u, n) ==
    IF ~IntNegative(u) THEN UMod(u, n)
    ELSE LET two64 == (UMod(<<Half - 1, Half - 1, Half - 1, Half - 1>>, n) + 1) % n
         IN  0 - ((two64 + n - UMod(u, n)) % n)

\* 2^63 - 1 (the largest int), 2^63 (the first uint64 whose int is negative)
\* and 2^64 - 1 (the largest uint64)
MaxInt64  == <<Half \div 2 - 1, Half - 1, Half - 1, Half - 1>>
SignBit64 == <<Half \div 2, 0, 0, 0>>
MaxUint64 == <<Half - 1, Half - 1, Half - 1, Half - 1>>

\* values of the round-robin counter: fresh, small, and around the two places
\* where the conversion to int changes
CounterValues == {U64(0), U64(1), U64(2), MaxInt64, SignBit64, AddUint64(SignBit64), MaxUint64}

----------------------------------------------------------------------------
(* New *)

NoBackend == [constructed |-> FALSE]

\* newCodeCounter(servers): no status code counted yet
newCodeCounter(servers) ==
    [p \in {servers[i].URL : i \in 1..Len(servers)} \X BackendCodes |-> 0]

\* variant of New: the configured servers are taken unfiltered
NewBackendUnfiltered(s) ==
    [constructed      |-> TRUE,
     servers          |-> s.Servers,
     codeCounter      |-> newCodeCounter(s.Servers),
     responseGotFuncs |-> <<>>,
     count            |-> U64(0),
     adaptor          |-> s.Adaptor,
     memoryCache      |-> s.MemoryCache]

NewBackend(s) ==
    LET servers == pickServers(s)
    IN  [constructed      |-> TRUE,
         servers          |-> servers,
         codeCounter      |-> newCodeCounter(servers),
         responseGotFuncs |-> <<>>,
         count            |-> U64(0),
         adaptor          |-> s.Adaptor,
         memoryCache      |-> s.MemoryCache]

----------------------------------------------------------------------------
(* Requests: the attributes the policies read *)

IPs          == {"10.0.0.1", "10.0.0.2"}
HeaderValues == {"", "u1", "u2"}

\* the bytes of the strings that get hashed
Bytes(str) ==
    CASE str = ""         -> <<>>
      [] str = "u1"       -> <<117, 49>>
      [] str = "u2"       -> <<117, 50>>
      [] str = "10.0.0.1" -> <<49, 48, 46, 48, 46, 48, 46, 49>>
      [] str = "10.0.0.2" -> <<49, 48, 46, 48, 46, 48, 46, 50>>

\* a request header is a list of <<name, value>> pairs
Headers == {<<>>} \cup {<< <<HeaderKey, v>> >> : v \in HeaderValues}

\* variant of HeaderGetFrom: a header that is not there reads as "u1"
HeaderGetFromDefault(header, key, k) ==
    IF \E i \in k..Len(header) : header[i][1] = key
    THEN header[CHOOSE i \in k..Len(header) :
                    header[i][1] = key /\ \A j \in k..(i - 1) : header[j][1] # key][2]
    ELSE "u1"

\* HTTPHeader.Get: the value of the first entry named key, "" when there is none
RECURSIVE HeaderGetFrom(_, _, _)
HeaderGetFrom(header, key, k) ==
    IF k > Len(header) THEN ""
    ELSE IF header[k][1] = key THEN header[k][2]
    ELSE HeaderGetFrom(header, key, k + 1)

HeaderGet(header, key) == HeaderGetFrom(header, key, 1)

Request(ip, header) == [RealIP |-> ip, Header |-> header]

DefaultRequest == Request("10.0.0.1", <<>>)

\* the requests that differ in what the configured policy reads
Requests(lb) ==
    IF lb.Policy = policyIPHash THEN {Request(ip, <<>>) : ip \in IPs}
    ELSE IF lb.Policy = policyHeaderHash THEN {Request("10.0.0.1", h) : h \in Headers}
    ELSE {DefaultRequest}

----------------------------------------------------------------------------
(* hash32Once: 32-bit FNV-1a, a uint32 kept as two 16-bit halves *)

RECURSIVE XorBits(_, _, _)
XorBits(x, y, n) ==
    IF n = 0 THEN 0
    ELSE (((x % 2) + (y % 2)) % 2) + 2 * XorBits(x \div 2, y \div 2, n - 1)

\* hash ^= byte
FnvXor(h, byte) ==
    [hi |-> h.hi, lo |-> (h.lo \div 256) * 256 + XorBits(h.lo % 256, byte, 8)]

\* hash *= 16777619 (0x0100 0193), modulo 2^32
FnvMul(h) ==
    LET low == h.lo * 403
    IN  [hi |-> ((low \div Half) + h.hi * 403 + h.lo * 256) % Half,
         lo |-> low % Half]

RECURSIVE FnvFrom(_, _, _)
FnvFrom(h, bytes, k) ==
    IF k > Len(bytes) THEN h
    ELSE FnvFrom(FnvMul(FnvXor(h, bytes[k])), bytes, k + 1)

\* offset basis 2166136261 (0x811C 9DC5)
hash32Once(key) == FnvFrom([hi |-> 33052, lo |-> 40389], Bytes(key), 1)

\* int(sum32) % n for n > 0: int is 64 bits wide, so the value stays non-negative
hashIndex(sum32, n) == ((sum32.hi % n) * (Half % n) + sum32.lo) % n

----------------------------------------------------------------------------
(* nextServer and the four policies.  Each returns the index chosen in      *)
(* b.servers (0-based), or Panic when the index expression panics, and the  *)
(* value of b.count afterwards.                                             *)

Panic == -1

Chosen(index, count) == [index |-> index, count |-> count]

\* b.servers[int(count) % len(b.servers)]: the modulo panics on an empty
\* list (division by zero), the indexing on a negative index
IntIndex(u, n) ==
    IF n = 0 THEN Panic
    ELSE IF IntMod(u, n) < 0 THEN Panic
    ELSE IntMod(u, n)

\* variant of roundRobin: the index is taken from the counter before the add
roundRobinBeforeAdd(bk) ==
    Chosen(IntIndex(bk.count, Len(bk.servers)), AddUint64(bk.count))

\* atomic.AddUint64(&b.count, 1); int(count) % len(b.servers)
roundRobin(bk) ==
    LET count == AddUint64(bk.count)
    IN  Chosen(IntIndex(count, Len(bk.servers)), count)

\* rand.Intn(len(b.servers)); rnd is the draw
random(bk, rnd) ==
    Chosen(IF Len(bk.servers) = 0 THEN Panic ELSE rnd, bk.count)

\* variant of ipHash: the round-robin counter is mixed into the index
ipHashPlusCount(bk, req) ==
    LET sum32 == hash32Once(req.RealIP)
        n == Len(bk.servers)
    IN  Chosen(IF n = 0 THEN Panic ELSE (hashIndex(sum32, n) + UMod(bk.count, n)) % n,
               bk.count)

ipHash(bk, req) ==
    LET sum32 == hash32Once(req.RealIP)
    IN  Chosen(IF Len(bk.servers) = 0 THEN Panic ELSE hashIndex(sum32, Len(bk.servers)),
               bk.count)

headerHash(bk, lb, req) ==
    LET value == HeaderGet(req.Header, lb.HeaderHashKey)
        sum32 == hash32Once(value)
    IN  Chosen(IF Len(bk.servers) = 0 THEN Panic ELSE hashIndex(sum32, Len(bk.servers)),
               bk.count)

\* variant of nextServer: an unknown policy takes the first server
nextServerUnknownFirst(bk, lb, req, rnd) ==
    CASE lb.Policy = policyRoundRobin -> roundRobin(bk)
      [] lb.Policy = policyRandom     -> random(bk, rnd)
      [] lb.Policy = policyIPHash     -> ipHash(bk, req)
      [] lb.Policy = policyHeaderHash -> headerHash(bk, lb, req)
      [] OTHER -> Chosen(IF Len(bk.servers) = 0 THEN Panic ELSE 0, bk.count)

nextServer(bk, lb, req, rnd) ==
    CASE lb.Policy = policyRoundRobin -> roundRobin(bk)
      [] lb.Policy = policyRandom     -> random(bk, rnd)
      [] lb.Policy = policyIPHash     -> ipHash(bk, req)
      [] lb.Policy = policyHeaderHash -> headerHash(bk, lb, req)
      [] OTHER                        -> roundRobin(bk)

\* the draws rand.Intn can return
RandomDraws(bk, lb) ==
    IF lb.Policy = policyRandom /\ Len(bk.servers) > 0
    THEN 0..(Len(bk.servers) - 1) ELSE {0}

----------------------------------------------------------------------------
(* The per-request HTTPContext and the task that carries it *)

Tasks == 1..NumTasks

\* the name, in the log, of the k-th ResponseGotFunc that was registered
FuncName(k) == "fn" \o ToString(k)

\* what client.Do returns: an error, or a response with a status code
NoDo      == [err |-> FALSE, StatusCode |-> 0]
DoErr     == [err |-> TRUE, StatusCode |-> 0]
DoResp(c) == [err |-> FALSE, StatusCode |-> c]
DoResults == {DoErr} \cup {DoResp(c) : c \in BackendCodes}

\* pc     "idle" no call yet, "do" inside client.Do, "done" returned,
\*        "panic" left by a panic
\* server the index nextServer chose in b.servers, -1 before
\* nth    which nextServer call of the Dispatcher this one was
\* cache  what memoryCache.Load answered: "off" (no cache), "hit", "miss"
\* built  what http.NewRequest answered: "none", "ok", "failed"
\* got    what client.Do answered
\* status, header, body: the response w; tags: ctx.AddTag; hooks: ctx.OnFinish
\* log    the calls of the handler on its collaborators, in order
\* firstByte, bodyRead: firstByteTime.Sub(startTime) and body.Duration() as
\*        they stand when the context finishes, 0 before
\* pc     becomes "finished" when the context has finished
FreshCall(kind, req) ==
    [pc |-> "idle", kind |-> kind, req |-> req, server |-> -1, nth |-> 0,
     cache |-> "off", built |-> "none", got |-> NoDo,
     status |-> 0, header |-> "none", body |-> "none",
     tags |-> <<>>, hooks |-> 0, log |-> <<>>,
     firstByte |-> 0, bodyRead |-> 0]

IdleCall == FreshCall("none", DefaultRequest)

Logged(ctx, ev) == [ctx EXCEPT !.log = Append(@, ev)]

\* ctx.AddTag(fmt.Sprintf("name:%v", value))
AddTag(ctx, name, value) == [ctx EXCEPT !.tags = Append(@, <<name, value>>)]

\* variant of SetStatusCode: the status is always 200
SetStatusCodeOK(ctx, code) == [Logged(ctx, "SetStatusCode") EXCEPT !.status = 200]

\* w.SetStatusCode(code)
SetStatusCode(ctx, code) == [Logged(ctx, "SetStatusCode") EXCEPT !.status = code]

\* the header and the body of a response: each server sends its own
RespHeader(server) == "header of " \o server.URL
RespBody(server)   == "body of " \o server.URL

\* w.Header().AddFromStd(h): the response had no header before
AddFromStd(ctx, h) == [Logged(ctx, "AddFromStd") EXCEPT !.header = h]

\* durationreadcloser.New(rc): rc, with the time spent reading it measured
durationreadcloserNew(rc) == "duration(" \o rc \o ")"

\* w.SetBody(body)
SetBody(ctx, body) == [Logged(ctx, "SetBody") EXCEPT !.body = body]

\* variant of the deferred Store: Store as the last statement of the handler,
\* reached on the successful path only
RunDeferredOnSuccess(ctx) ==
    IF ctx.cache = "miss" /\ "OnFinish" \in Range(ctx.log)
    THEN Logged(ctx, "Store") ELSE ctx

\* defer b.memoryCache.Store(ctx): run when the handler is left
RunDeferred(ctx) == IF ctx.cache = "miss" THEN Logged(ctx, "Store") ELSE ctx

Return(ctx)   == [RunDeferred(ctx) EXCEPT !.pc = "done"]
Panicked(ctx) == [RunDeferred(ctx) EXCEPT !.pc = "panic"]

\* the durations a measurement can give
Durations == {1, 2}

\* variant of OnFinishHook: the time to the first byte alone
OnFinishHookFirstByteOnly(ctx, firstByte, bodyRead) ==
    AddTag([ctx EXCEPT !.firstByte = firstByte, !.bodyRead = bodyRead],
           "backendDuration", ToString(firstByte))

\* the function given to ctx.OnFinish (lines 311-314)
OnFinishHook(ctx, firstByte, bodyRead) ==
    LET totalDuration == firstByte + bodyRead
    IN  AddTag([ctx EXCEPT !.firstByte = firstByte, !.bodyRead = bodyRead],
               "backendDuration", ToString(totalDuration))

\* the context finishes: the registered completion hooks run
ContextFinish(ctx, firstByte, bodyRead) ==
    [(IF ctx.hooks > 0 THEN OnFinishHook(ctx, firstByte, bodyRead) ELSE ctx)
        EXCEPT !.pc = "finished"]

\* codeCounter.count(server, code)
count(cc, server, code) == [cc EXCEPT ![<<server.URL, code>>] = @ + 1]

\* Codes(): the counts per server URL and status code
Codes(bk) == bk.codeCounter

\* what a part of a handler leaves behind: the context, the Dispatcher and
\* the response bodies handed to background goroutines
Out(ctx, bk, bg) == [ctx |-> ctx, b |-> bk, bg |-> bg]

\* running: drain goroutines started and not yet ended
\* open:    response bodies handed to a goroutine and not yet closed
NoBodies == [running |-> 0, open |-> 0]

\* go func() { ... }(): one more goroutine, owning resp.Body
GoDrain(bg) == [running |-> bg.running + 1, open |-> bg.open + 1]

\* variant of DrainBody: Close as the statement after io.Copy, reached only
\* when the copy succeeded
DrainBodyCloseAfterCopy(bg, copyOK) ==
    [running |-> bg.running - 1, open |-> IF copyOK THEN bg.open - 1 ELSE bg.open]

\* the goroutine: defer resp.Body.Close(); io.Copy(ioutil.Discard, resp.Body).
\* The deferred Close runs whether or not the copy failed.
DrainBody(bg, copyOK) == [running |-> bg.running - 1, open |-> bg.open - 1]

\* adaptRequest: AdaptRequest is called when an adaptor is configured
adaptRequest(ctx, bk, headerInPlace) ==
    IF bk.adaptor THEN Logged(ctx, "AdaptRequest") ELSE ctx

\* adaptResponse: AdaptResponse is called when an adaptor is configured
adaptResponse(ctx, bk) ==
    IF bk.adaptor THEN Logged(ctx, "AdaptResponse") ELSE ctx

----------------------------------------------------------------------------
(* HandleWithResponse *)

\* variant of WithResponseSelect: no return after a failed http.NewRequest
WithResponseSelectNoReturn(ctx, bk, lb, rnd, newReqOK, nth, bg) ==
    LET sel == nextServer(bk, lb, ctx.req, rnd)
        bk1 == [bk EXCEPT !.count = sel.count]
        c1  == [Logged(ctx, "nextServer") EXCEPT !.nth = nth]
    IN  IF sel.index = Panic THEN Out(Panicked(c1), bk1, bg)
        ELSE LET c2 == AddTag([c1 EXCEPT !.server = sel.index],
                              "backendAddr", bk.servers[sel.index + 1].URL)
                 c3 == Logged(adaptRequest(c2, bk, TRUE), "NewRequest")
             IN  IF newReqOK
                 THEN Out([c3 EXCEPT !.built = "ok", !.pc = "do"], bk1, bg)
                 ELSE Out([AddTag(SetStatusCode([c3 EXCEPT !.built = "failed"],
                                                StatusInternalServerError),
                                  "backendBug", NewReqErrText) EXCEPT !.pc = "do"],
                          bk1, bg)

\* lines 262-291: from the server selection to the entry of client.Do
WithResponseSelect(ctx, bk, lb, rnd, newReqOK, nth, bg) ==
    LET sel == nextServer(bk, lb, ctx.req, rnd)
        bk1 == [bk EXCEPT !.count = sel.count]
        c1  == [Logged(ctx, "nextServer") EXCEPT !.nth = nth]
    IN  IF sel.index = Panic THEN Out(Panicked(c1), bk1, bg)
        ELSE LET c2 == AddTag([c1 EXCEPT !.server = sel.index],
                              "backendAddr", bk.servers[sel.index + 1].URL)
                 c3 == Logged(adaptRequest(c2, bk, TRUE), "NewRequest")
             IN  IF newReqOK
                 THEN Out([c3 EXCEPT !.built = "ok", !.pc = "do"], bk1, bg)
                 ELSE Out(Return(AddTag(SetStatusCode([c3 EXCEPT !.built = "failed"],
                                                      StatusInternalServerError),
                                        "backendBug", NewReqErrText)),
                          bk1, bg)

\* variant of WithResponseBegin: no return on a cache hit
WithResponseBeginNoReturn(req, bk, lb, hit, rnd, newReqOK, nth, bg) ==
    LET c0 == FreshCall("with", req)
    IN  IF bk.memoryCache
        THEN WithResponseSelect([Logged(c0, "Load") EXCEPT
                                     !.cache = IF hit THEN "hit" ELSE "miss"],
                                bk, lb, rnd, newReqOK, nth, bg)
        ELSE WithResponseSelect(c0, bk, lb, rnd, newReqOK, nth, bg)

\* lines 255-260, then the selection
WithResponseBegin(req, bk, lb, hit, rnd, newReqOK, nth, bg) ==
    LET c0 == FreshCall("with", req)
    IN  IF bk.memoryCache
        THEN IF hit
             THEN Out(Return([Logged(c0, "Load") EXCEPT !.cache = "hit"]), bk, bg)
             ELSE WithResponseSelect([Logged(c0, "Load") EXCEPT !.cache = "miss"],
                                     bk, lb, rnd, newReqOK, nth, bg)
        ELSE WithResponseSelect(c0, bk, lb, rnd, newReqOK, nth, bg)

RECURSIVE RunFuncsFrom(_, _, _)
RunFuncsFrom(ctx, funcs, k) ==
    IF k > Len(funcs) THEN ctx
    ELSE RunFuncsFrom(Logged(ctx, funcs[k]), funcs, k + 1)

\* variant of RunFuncs: the callback registered last is called first
RunFuncsNewestFirst(ctx, funcs) ==
    RunFuncsFrom(ctx, [i \in 1..Len(funcs) |-> funcs[Len(funcs) + 1 - i]], 1)

\* for _, fn := range b.responseGotFuncs { fn(ctx) }
RunFuncs(ctx, funcs) == RunFuncsFrom(ctx, funcs, 1)

\* variant of WithResponseEnd: the callbacks and the completion hook are run
\* after the error branch too
WithResponseEndSharedTail(ctx, bk, res, bg) ==
    LET c1 == [Logged(ctx, "Do") EXCEPT !.got = res]
        server == bk.servers[ctx.server + 1]
        bk1 == IF res.err THEN bk
               ELSE [bk EXCEPT !.codeCounter = count(@, server, res.StatusCode)]
        c5 == IF res.err
              THEN AddTag(SetStatusCode(c1, StatusServiceUnavailable),
                          "backendErr", DoErrText)
              ELSE LET c2 == Logged(c1, "count")
                       c3 == AddTag(SetStatusCode(c2, res.StatusCode),
                                    "backendCode", ToString(res.StatusCode))
                       c4 == AddFromStd(c3, RespHeader(server))
                   IN  SetBody(c4, durationreadcloserNew(RespBody(server)))
        c6 == RunFuncs(c5, bk.responseGotFuncs)
        c7 == [Logged(c6, "OnFinish") EXCEPT !.hooks = @ + 1]
    IN  Out(Return(c7), bk1, bg)

\* lines 293-315: client.Do has returned res
WithResponseEnd(ctx, bk, res, bg) ==
    LET c1 == [Logged(ctx, "Do") EXCEPT !.got = res]
        server == bk.servers[ctx.server + 1]
    IN  IF res.err
        THEN Out(Return(AddTag(SetStatusCode(c1, StatusServiceUnavailable),
                               "backendErr", DoErrText)),
                 bk, bg)
        ELSE LET bk1 == [bk EXCEPT !.codeCounter = count(@, server, res.StatusCode)]
                 c2 == Logged(c1, "count")
                 c3 == AddTag(SetStatusCode(c2, res.StatusCode),
                              "backendCode", ToString(res.StatusCode))
                 c4 == AddFromStd(c3, RespHeader(server))
                 c5 == SetBody(c4, durationreadcloserNew(RespBody(server)))
                 c6 == RunFuncs(c5, bk.responseGotFuncs)
                 c7 == [Logged(c6, "OnFinish") EXCEPT !.hooks = @ + 1]
             IN  Out(Return(c7), bk1, bg)

----------------------------------------------------------------------------
(* HandleWithoutResponse *)

\* variant of WithoutResponseBegin: a failed http.NewRequest is answered as
\* HandleWithResponse answers it
WithoutResponseBeginSetsStatus(req, bk, lb, rnd, newReqOK, nth, bg) ==
    LET c0  == FreshCall("without", req)
        sel == nextServer(bk, lb, req, rnd)
        bk1 == [bk EXCEPT !.count = sel.count]
        c1  == [Logged(c0, "nextServer") EXCEPT !.nth = nth]
    IN  IF sel.index = Panic THEN Out(Panicked(c1), bk1, bg)
        ELSE LET c2 == AddTag([c1 EXCEPT !.server = sel.index],
                              "mirrorBackendAddr", bk.servers[sel.index + 1].URL)
                 c3 == Logged(adaptRequest(c2, bk, FALSE), "NewRequest")
             IN  IF newReqOK
                 THEN Out([c3 EXCEPT !.built = "ok", !.pc = "do"], bk1, bg)
                 ELSE Out(Return(SetStatusCode([c3 EXCEPT !.built = "failed"],
                                               StatusInternalServerError)),
                          bk1, bg)

\* lines 319-331: up to the entry of client.Do
WithoutResponseBegin(req, bk, lb, rnd, newReqOK, nth, bg) ==
    LET c0  == FreshCall("without", req)
        sel == nextServer(bk, lb, req, rnd)
        bk1 == [bk EXCEPT !.count = sel.count]
        c1  == [Logged(c0, "nextServer") EXCEPT !.nth = nth]
    IN  IF sel.index = Panic THEN Out(Panicked(c1), bk1, bg)
        ELSE LET c2 == AddTag([c1 EXCEPT !.server = sel.index],
                              "mirrorBackendAddr", bk.servers[sel.index + 1].URL)
                 c3 == Logged(adaptRequest(c2, bk, FALSE), "NewRequest")
             IN  IF newReqOK
                 THEN Out([c3 EXCEPT !.built = "ok", !.pc = "do"], bk1, bg)
                 ELSE Out(Return([c3 EXCEPT !.built = "failed"]), bk1, bg)

\* variant of WithoutResponseEnd: the status code of a mirrored response is
\* not counted
WithoutResponseEndNoCount(ctx, bk, res, bg) ==
    LET c1 == [Logged(ctx, "Do") EXCEPT !.got = res]
    IN  IF res.err
        THEN Out(Return(AddTag(c1, "mirrorBackendFailed", DoErrText)), bk, bg)
        ELSE Out(Return(Logged(c1, "go")), bk, GoDrain(bg))

\* lines 333-346: client.Do has returned res
WithoutResponseEnd(ctx, bk, res, bg) ==
    LET c1 == [Logged(ctx, "Do") EXCEPT !.got = res]
        server == bk.servers[ctx.server + 1]
    IN  IF res.err
        THEN Out(Return(AddTag(c1, "mirrorBackendFailed", DoErrText)), bk, bg)
        ELSE Out(Return(Logged(Logged(c1, "count"), "go")),
                 [bk EXCEPT !.codeCounter = count(@, server, res.StatusCode)],
                 GoDrain(bg))

----------------------------------------------------------------------------
(* texttemplate: the meta-template syntax tree *)

\* In this section a Go string is the sequence of its characters, "" being
\* <<>>.  The two special tags are written as one character each: neither
\* holds the separator, and no other tag drawn below holds a part of them.
WidecardTag == <<"{}">>
GJSONTag == <<"{gjson}">>
DefulatBeginToken == <<"[", "[">>
DefulatEndToken == <<"]", "]">>
DefaultSepertor == <<".">>

\* strings.Index: the 1-based place of the first instance of sep in s, 0 if none
stringsIndex(s, sep) ==
    LET at == {i \in 1..(Len(s) - Len(sep) + 1) : SubSeq(s, i, i + Len(sep) - 1) = sep}
    IN  IF at = {} THEN 0 ELSE CHOOSE i \in at : \A j \in at : i <= j

\* strings.Split for a non-empty sep: the substrings between the instances
\* of sep, so that "" gives one empty tag and "a..b" gives "a", "", "b"
RECURSIVE stringsSplit(_, _)
stringsSplit(s, sep) ==
    LET i == stringsIndex(s, sep)
    IN  IF i = 0 THEN <<s>>
        ELSE <<SubSeq(s, 1, i - 1)>> \o stringsSplit(SubSeq(s, i + Len(sep), Len(s)), sep)

RECURSIVE stringsJoin(_, _)
stringsJoin(elems, sep) ==
    IF Len(elems) = 0 THEN <<>>
    ELSE IF Len(elems) = 1 THEN elems[1]
    ELSE elems[1] \o sep \o stringsJoin(Tail(elems), sep)

node(value, children) == [Value |-> value, Children |-> children]

\* indexChild: Go's 0-based index of the first child holding target, -1 if none
indexChild(children, target) ==
    LET at == {i \in 1..Len(children) : children[i].Value = target}
    IN  IF at = {} THEN -1 ELSE (CHOOSE i \in at : \A j \in at : i <= j) - 1

\* the loop of addNode from `parent` on: follow the child holding the tag,
\* or append a new child and go on below it
RECURSIVE addNodeFrom(_, _)
addNodeFrom(parent, tags) ==
    IF Len(tags) = 0 THEN parent
    ELSE LET index == indexChild(parent.Children, Head(tags))
         IN  IF index # -1
             THEN [parent EXCEPT !.Children[index + 1] = addNodeFrom(@, Tail(tags))]
             ELSE [parent EXCEPT !.Children =
                       Append(@, addNodeFrom(node(Head(tags), <<>>), Tail(tags)))]

NilRoot == [nil |-> TRUE]

addNode(root, tags) ==
    addNodeFrom(IF root = NilRoot THEN node(<<>>, <<>>) ELSE root, tags)

RECURSIVE validateTree(_)
validateTree(root) ==
    IF Len(root.Children) = 0 THEN "nil"
    ELSE IF indexChild(root.Children, WidecardTag) # -1 /\ Len(root.Children) # 1
    THEN "error"
    ELSE IF indexChild(root.Children, GJSONTag) # -1 /\ Len(root.Children) # 1
    THEN "error"
    ELSE IF \E i \in 1..Len(root.Children) : validateTree(root.Children[i]) # "nil"
    THEN "error"
    ELSE "nil"

\* the first loop of buildTemplateTree: one meta template on its own
validTemplate(v, seperator) ==
    LET arr == stringsSplit(v, seperator)
    IN  /\ Len(arr) # 0
        /\ \A i \in 1..Len(arr) :
               /\ Len(arr[i]) # 0
               /\ ~(arr[i] = GJSONTag /\ i # Len(arr))

RECURSIVE addNodes(_, _, _)
addNodes(root, templates, seperator) ==
    IF Len(templates) = 0 THEN root
    ELSE addNodes(addNode(root, stringsSplit(Head(templates), seperator)),
                  Tail(templates), seperator)

\* buildTemplateTree: the error it returns and the root it leaves in t
buildTemplateTree(t) ==
    IF Len(t.metaTemplates) = 0 THEN [err |-> "error", root |-> t.root]
    ELSE IF \E i \in 1..Len(t.metaTemplates) :
                ~validTemplate(t.metaTemplates[i], t.seperator)
    THEN [err |-> "error", root |-> t.root]
    ELSE LET root == addNodes(t.root, t.metaTemplates, t.seperator)
         IN  IF validateTree(root) # "nil"
             THEN [err |-> "error", root |-> NilRoot]
             ELSE [err |-> "nil", root |-> root]

NoEngine == [kind |-> "none"]
DummyTemplate == [kind |-> "DummyTemplate"]

TextTemplate(beginToken, endToken, seperator, templates, root) ==
    [kind |-> "TextTemplate", beginToken |-> beginToken, endToken |-> endToken,
     seperator |-> seperator, metaTemplates |-> templates, root |-> root]

\* NewDefault: the dummy engine when the tree cannot be built
NewTemplateEngine(templates) ==
    LET t == TextTemplate(DefulatBeginToken, DefulatEndToken, DefaultSepertor,
                          templates, NilRoot)
        built == buildTemplateTree(t)
    IN  IF built.err # "nil" THEN DummyTemplate
        ELSE [t EXCEPT !.root = built.root]

\* the loop of MatchMetaTemplate from `root` and the Go index `index` on:
\* how it ends (a return of "", the break at a {gjson} child, or the tags
\* running out) and the index it ends at
RECURSIVE matchLoop(_, _, _)
matchLoop(root, tags, index) ==
    IF ~(index < Len(tags)) THEN [end |-> "exhausted", index |-> index]
    ELSE IF Len(root.Children) = 0 \/ Len(tags[index + 1]) = 0
    THEN [end |-> "return", index |-> index]
    ELSE IF Len(root.Children) = 1
    THEN IF root.Children[1].Value = GJSONTag
         THEN [end |-> "break", index |-> index]
         ELSE IF \/ root.Children[1].Value = WidecardTag
                 \/ root.Children[1].Value = tags[index + 1]
         THEN matchLoop(root.Children[1], tags, index + 1)
         ELSE [end |-> "return", index |-> index]
    ELSE LET child == indexChild(root.Children, tags[index + 1])
         IN  IF child # -1
             THEN matchLoop(root.Children[child + 1], tags, index + 1)
             ELSE [end |-> "return", index |-> index]

TextTemplateMatchMetaTemplate(t, template) ==
    LET tags == stringsSplit(template, t.seperator)
    IN  IF Len(tags) = 0 THEN <<>>
        ELSE LET loop == matchLoop(t.root, tags, 0)
                 hasGJSON == loop.end = "break"
             IN  IF loop.end = "return" THEN <<>>
                 ELSE IF hasGJSON
                 THEN stringsJoin(SubSeq(tags, 1, loop.index), t.seperator)
                          \o t.seperator \o GJSONTag
                 ELSE template

DummyTemplateMatchMetaTemplate(template) == <<>>

\* the call through the TemplateEngine interface
EngineMatchMetaTemplate(e, template) ==
    IF e.kind = "TextTemplate" THEN TextTemplateMatchMetaTemplate(e, template)
    ELSE DummyTemplateMatchMetaTemplate(template)

NoMatch == [called |-> FALSE, template |-> <<>>, result |-> <<>>]

----------------------------------------------------------------------------
(* v: the ValidateRecorder *)

\* In this section a struct tag is the sequence of its comma-separated
\* parts, and a jsonschema part the sequence of its "="-separated pieces:
\* `jsonschema:"omitempty,format=url"` is << <<"omitempty">>, <<"format", "url">> >>.
\* A missing tag is the one empty part strings.Split gives for "".
NilField == [nil |-> TRUE]
StructField(name, yaml, jsonschema) ==
    [nil |-> FALSE, Name |-> name, yaml |-> yaml, jsonschema |-> jsonschema]

\* a reflect.Value: its type, whether it is the zero value, what the format
\* function makes of it, and what its Validate() does ("none": the type is
\* no Validator)
Value(type, zero, format, validator) ==
    [type |-> type, zero |-> zero, format |-> format, validator |-> validator]

NewValidateRecorder ==
    [JSONSchemaErrs |-> <<>>, FormatErrs |-> <<>>, GeneralErrs |-> <<>>, SystemErr |-> ""]

\* how a record* call came back to its caller
Returned(r) == [vr |-> r, returned |-> "normal"]
Propagated(r) == [vr |-> r, returned |-> "panic"]

\* ResultError.String() of the JSON-schema library
ResultErrorString(err) == err.field \o ": " \o err.description

RECURSIVE recordJSONSchemaFrom(_, _)
recordJSONSchemaFrom(r, errors) ==
    IF Len(errors) = 0 THEN r
    ELSE recordJSONSchemaFrom(
             [r EXCEPT !.JSONSchemaErrs = Append(@, ResultErrorString(Head(errors)))],
             Tail(errors))

recordJSONSchema(r, result) == Returned(recordJSONSchemaFrom(r, result))

getFieldYAMLName(field) ==
    IF Len(field.yaml) > 0 THEN field.yaml[1] ELSE field.Name

requiredFromField(field) ==
    LET tags == field.jsonschema
    IN  IF Len(tags) = 0 THEN FALSE
        ELSE IF tags[1] = <<"-">> THEN FALSE
        ELSE ~(\E i \in 1..Len(tags) : tags[i] = <<"omitempty">>)

\* the format functions registered with the package
FormatFuncs == {"url"}
getFormatFunc(value) == value \in FormatFuncs

\* the loop of recordFormat over the jsonschema parts: a format function
\* that is not registered ends the call, one that panics is not recovered
RECURSIVE recordFormatFrom(_, _, _, _)
recordFormatFrom(r, val, field, tags) ==
    IF Len(tags) = 0 THEN Returned(r)
    ELSE LET nameValue == Head(tags)
         IN  IF Len(nameValue) # 2 THEN recordFormatFrom(r, val, field, Tail(tags))
             ELSE IF nameValue[1] # "format"
             THEN recordFormatFrom(r, val, field, Tail(tags))
             ELSE IF ~getFormatFunc(nameValue[2]) THEN Returned(r)
             ELSE IF val.format = "panic" THEN Propagated(r)
             ELSE IF val.format = "error"
             THEN recordFormatFrom(
                      [r EXCEPT !.FormatErrs =
                           Append(@, getFieldYAMLName(field) \o ": " \o "invalid format")],
                      val, field, Tail(tags))
             ELSE recordFormatFrom(r, val, field, Tail(tags))

recordFormat(r, val, field) ==
    IF field.nil THEN Returned(r)
    ELSE IF ~requiredFromField(field) /\ val.zero THEN Returned(r)
    ELSE recordFormatFrom(r, val, field, field.jsonschema)

\* recordSystem(err): err is "nil" or the error's text
recordSystem(r, err) ==
    IF err # "nil" THEN [r EXCEPT !.SystemErr = err] ELSE r

\* what recover() returns in the deferred function of recordGeneral:
\* "nil" when nothing panicked, the panic value otherwise.  For panic(nil)
\* it is nil with the toolchains before Go 1.21 (and with panicnil=1), and
\* a *runtime.PanicNilError with the later ones.
PanicNilErrorText == "panic called with nil argument"
Recovered(validator) ==
    IF validator = "panic" THEN {"boom"}
    ELSE IF validator = "panicNil" THEN {"nil", PanicNilErrorText}
    ELSE {"nil"}


\* recordGeneral; `recovered` is what recover() returns
recordGeneral(r, val, field, recovered) ==
    LET fieldName == IF ~field.nil THEN getFieldYAMLName(field) ELSE val.type
        ok == val.validator # "none"
        deferred(s) ==
            IF recovered # "nil"
            THEN recordSystem(s, "BUG: call Validate for " \o val.type
                                     \o " panic: " \o recovered)
            ELSE s
    IN  IF ~ok THEN Returned(r)
        ELSE IF val.validator \in {"panic", "panicNil"} THEN Returned(deferred(r))
        ELSE IF val.validator = "error"
        THEN Returned(deferred([r EXCEPT !.GeneralErrs =
                                    Append(@, fieldName \o ": " \o "invalid")]))
        ELSE Returned(deferred(r))

Valid(r) ==
    /\ Len(r.JSONSchemaErrs) = 0 /\ Len(r.FormatErrs) = 0
    /\ Len(r.GeneralErrs) = 0 /\ Len(r.SystemErr) = 0

NoRecord == [n |-> 0, op |-> "none", val |-> Value("", TRUE, "nil", "none"),
             field |-> NilField, returned |-> "normal"]

\* the utilities before anything is constructed
UtilInit ==
    /\ metaTemplates = <<>>
    /\ engine = NoEngine
    /\ matched = NoMatch
    /\ vr = NewValidateRecorder
    /\ recorded = NoRecord

----------------------------------------------------------------------------
(* Inputs of the two utilities *)

\* lists of meta templates, valid and invalid, and every template of up to
\* MaxTemplateLen characters
MetaTemplates ==
    {<<"a", ".", "{}", ".", "b">>,      \* a.{}.b
     <<"a", ".", "b">>,                 \* a.b
     <<"a", ".", "{}">>,                \* a.{}
     <<"b", ".", "{gjson}">>,           \* b.{gjson}
     <<"a", ".", ".", "b">>,            \* a..b, an empty tag
     <<"{gjson}", ".", "a">>}           \* {gjson}.a, {gjson} not at the end

MetaLists == UNION {[1..n -> MetaTemplates] : n \in 0..MaxMetas}

TemplateChars == {".", "a", "b", "{}"}
Templates == UNION {[1..n -> TemplateChars] : n \in 0..MaxTemplateLen}

\* JSON-schema results, values that are or are not Validators, and fields
\* with and without tags
SchemaResults ==
    {<<>>,
     <<[field |-> "servers", description |-> "is required"]>>,
     <<[field |-> "servers", description |-> "is required"],
       [field |-> "policy", description |-> "must be one of"]>>}

Values ==
    {Value("Spec", zero, format, validator) :
        zero \in BOOLEAN, format \in {"nil", "error", "panic"},
        validator \in {"none", "nil", "error", "panic", "panicNil"}}

Fields ==
    {NilField} \cup
    {StructField("URL", <<"url">>, js) :
        js \in {<< <<"">> >>, << <<"format", "url">> >>, << <<"-">> >>,
                << <<"omitempty">>, <<"format", "url">> >>,
                << <<"format", "bogus">>, <<"format", "url">> >>}}

----------------------------------------------------------------------------
(* Actions *)

\* Spec.Validate, as the configuration loader calls it
Validate ==
    /\ specErr = "unchecked"
    /\ specErr' = SpecValidate(spec)
    /\ UNCHANGED <<spec, lbErr, b, calls, started, selections, received, bgBodies>>
    /\ UNCHANGED utilVars

\* LoadBalance.Validate
ValidateLoadBalance ==
    /\ lbErr = "unchecked"
    /\ lbErr' = LoadBalanceValidate(spec.LoadBalance)
    /\ UNCHANGED <<spec, specErr, b, calls, started, selections, received, bgBodies>>
    /\ UNCHANGED utilVars

New ==
    /\ ~b.constructed
    /\ b' = NewBackend(spec)
    /\ received' = [p \in DOMAIN b'.codeCounter |-> 0]
    /\ UNCHANGED <<spec, specErr, lbErr, calls, started, selections, bgBodies>>
    /\ UNCHANGED utilVars

\* OnResponseGot(fn): fn is known by its place in the order of registration
OnResponseGot ==
    /\ b.constructed
    /\ Len(b.responseGotFuncs) < MaxFuncs
    /\ b' = [b EXCEPT !.responseGotFuncs =
                  Append(@, FuncName(Len(b.responseGotFuncs) + 1))]
    /\ UNCHANGED <<spec, specErr, lbErr, calls, started, selections, received, bgBodies>>
    /\ UNCHANGED utilVars

CanBegin(t) ==
    /\ b.constructed
    /\ calls[t].pc \in {"idle", "done", "finished"}
    /\ started < MaxCalls

\* the handler part `out` ran on task t
Ran(t, out) ==
    /\ calls' = [calls EXCEPT ![t] = out.ctx]
    /\ b' = out.b
    /\ bgBodies' = out.bg

\* a handler was entered on task t: one more nextServer call if it got that far
Entered(t) ==
    /\ started' = started + 1
    /\ selections' = IF calls'[t].nth # 0 THEN selections + 1 ELSE selections

\* the backend answered the request of task t with res
Answered(t, res) ==
    received' = IF res.err THEN received
                ELSE [received EXCEPT
                          ![<<b.servers[calls[t].server + 1].URL, res.StatusCode>>] = @ + 1]

\* HandleWithResponse up to client.Do
HandleWithResponse(t) ==
    /\ CanBegin(t)
    /\ \E req \in Requests(spec.LoadBalance),
          hit \in (IF b.memoryCache THEN BOOLEAN ELSE {FALSE}),
          rnd \in RandomDraws(b, spec.LoadBalance),
          newReqOK \in BOOLEAN :
          Ran(t, WithResponseBegin(req, b, spec.LoadBalance, hit, rnd, newReqOK,
                                   selections + 1, bgBodies))
    /\ Entered(t)
    /\ UNCHANGED <<spec, specErr, lbErr, received>>
    /\ UNCHANGED utilVars

\* HandleWithResponse from the return of client.Do
HandleWithResponseDo(t) ==
    /\ calls[t].pc = "do"
    /\ calls[t].kind = "with"
    /\ \E res \in DoResults :
          /\ Ran(t, WithResponseEnd(calls[t], b, res, bgBodies))
          /\ Answered(t, res)
    /\ UNCHANGED <<spec, specErr, lbErr, started, selections>>
    /\ UNCHANGED utilVars

\* HandleWithoutResponse up to client.Do
HandleWithoutResponse(t) ==
    /\ CanBegin(t)
    /\ \E req \in Requests(spec.LoadBalance),
          rnd \in RandomDraws(b, spec.LoadBalance),
          newReqOK \in BOOLEAN :
          Ran(t, WithoutResponseBegin(req, b, spec.LoadBalance, rnd, newReqOK,
                                      selections + 1, bgBodies))
    /\ Entered(t)
    /\ UNCHANGED <<spec, specErr, lbErr, received>>
    /\ UNCHANGED utilVars

\* HandleWithoutResponse from the return of client.Do
HandleWithoutResponseDo(t) ==
    /\ calls[t].pc = "do"
    /\ calls[t].kind = "without"
    /\ \E res \in DoResults :
          /\ Ran(t, WithoutResponseEnd(calls[t], b, res, bgBodies))
          /\ Answered(t, res)
    /\ UNCHANGED <<spec, specErr, lbErr, started, selections>>
    /\ UNCHANGED utilVars

\* the goroutine of HandleWithoutResponse: io.Copy to Discard, then Body.Close
Drain ==
    /\ bgBodies.running > 0
    /\ \E copyOK \in BOOLEAN : bgBodies' = DrainBody(bgBodies, copyOK)
    /\ UNCHANGED <<spec, specErr, lbErr, b, calls, started, selections, received>>
    /\ UNCHANGED utilVars

\* the HTTPContext of task t finishes, after its handler has returned
Finish(t) ==
    /\ calls[t].pc = "done"
    /\ \E firstByte \in Durations, bodyRead \in Durations :
          calls' = [calls EXCEPT ![t] = ContextFinish(calls[t], firstByte, bodyRead)]
    /\ UNCHANGED <<spec, specErr, lbErr, b, started, selections, received, bgBodies>>
    /\ UNCHANGED utilVars

\* texttemplate.NewDefault(metaTemplates)
NewDefault ==
    /\ engine.kind = "none"
    /\ engine' = NewTemplateEngine(metaTemplates)
    /\ UNCHANGED <<metaTemplates, matched, vr, recorded>>
    /\ UNCHANGED backendVars

\* TemplateEngine.MatchMetaTemplate(template), on the engine NewDefault gave.
\* The call leaves the engine as it was, so one call in a behaviour reaches
\* every result.
MatchMetaTemplate ==
    /\ engine.kind # "none"
    /\ ~matched.called
    /\ \E template \in Templates :
          matched' = [called |-> TRUE, template |-> template,
                      result |-> EngineMatchMetaTemplate(engine, template)]
    /\ UNCHANGED <<metaTemplates, engine, vr, recorded>>
    /\ UNCHANGED backendVars

\* a record* call of the validation walk; none follows a call that panicked
CanRecord == recorded.n < MaxRecords /\ recorded.returned = "normal"

Record(op, val, field, out) ==
    /\ vr' = out.vr
    /\ recorded' = [n |-> recorded.n + 1, op |-> op, val |-> val, field |-> field,
                    returned |-> out.returned]
    /\ UNCHANGED <<metaTemplates, engine, matched>>
    /\ UNCHANGED backendVars

RecordJSONSchema ==
    /\ CanRecord
    /\ \E result \in SchemaResults :
          Record("recordJSONSchema", NoRecord.val, NilField, recordJSONSchema(vr, result))

RecordFormat ==
    /\ CanRecord
    /\ \E val \in Values, field \in Fields :
          Record("recordFormat", val, field, recordFormat(vr, val, field))

RecordGeneral ==
    /\ CanRecord
    /\ \E val \in Values, field \in Fields :
          \E recovered \in Recovered(val.validator) :
              Record("recordGeneral", val, field, recordGeneral(vr, val, field, recovered))

----------------------------------------------------------------------------
(* Specifications *)

\* the end-to-end server list: A and B tagged v1, C tagged v2
TaggedServers ==
    <<Server("A", <<"v1">>), Server("B", <<"v1">>), Server("C", <<"v2">>)>>

\* the dispatcher before New
BackendInit ==
    /\ specErr = "unchecked"
    /\ lbErr = "unchecked"
    /\ b = NoBackend
    /\ calls = [t \in Tasks |-> IdleCall]
    /\ started = 0
    /\ selections = 0
    /\ received = [p \in {} |-> 0]
    /\ bgBodies = NoBodies

InitRest == BackendInit /\ UtilInit

\* Concurrent requests on one Dispatcher: round-robin over the pool {A, B}
\* with a memory cache, the tasks interleaved at every access to the shared
\* counter, the code counter and the callback list.  (PolicySpecs below are
\* the configurations without a cache.)
DispatchSpecs ==
    {MkSpec(TaggedServers, <<"v1">>, LoadBalance(policyRoundRobin, ""), FALSE, c) :
        c \in {TRUE}}

Init == spec \in DispatchSpecs /\ InitRest

Next ==
    \/ New
    \/ OnResponseGot
    \/ \E t \in Tasks : HandleWithResponse(t)
    \/ \E t \in Tasks : HandleWithResponseDo(t)
    \/ \E t \in Tasks : HandleWithoutResponse(t)
    \/ \E t \in Tasks : HandleWithoutResponseDo(t)
    \/ Drain

Spec == Init /\ [][Next]_vars

\* One request at a time, on task 1: every policy over every pool the tag
\* filters give, the empty pool included, with and without an adaptor.
PolicySpecs ==
    {MkSpec(TaggedServers, f, lb, a, FALSE) :
        f \in {<<>>, <<"v1">>, <<"v2">>, <<"v1", "v2">>},
        a \in BOOLEAN,
        lb \in {LoadBalance(p, "") : p \in Policies \ {policyHeaderHash}}
                  \cup {LoadBalance(policyHeaderHash, HeaderKey)}}

InitPolicies == spec \in PolicySpecs /\ InitRest

NextPolicies ==
    \/ New
    \/ HandleWithResponse(1)
    \/ HandleWithResponseDo(1)
    \/ HandleWithoutResponse(1)
    \/ HandleWithoutResponseDo(1)
    \/ Drain
    \/ Finish(1)

SpecPolicies == InitPolicies /\ [][NextPolicies]_vars

\* The same, with the scheduling the drain goroutines get: a started
\* goroutine runs, and its io.Copy ends because the backend's response is
\* bounded (the copy may end in an error).
SpecDrain == SpecPolicies /\ WF_vars(Drain)

\* A Dispatcher that has made b.count selections already, none of which got a
\* response: one request at a time over pools of 3, 2 and 1 servers, the
\* round-robin counter at the values where its conversion to int changes.
\* Here `selections` counts the selections made from that state on.
IndexSpecs ==
    {MkSpec(TaggedServers, f, lb, FALSE, FALSE) :
        f \in {<<>>, <<"v1">>, <<"v2">>},
        lb \in {LoadBalance(policyRoundRobin, ""), LoadBalance(policyIPHash, ""),
                LoadBalance(policyHeaderHash, HeaderKey)}}

InitIndex ==
    /\ spec \in IndexSpecs
    /\ specErr = "unchecked"
    /\ lbErr = "unchecked"
    /\ \E c \in CounterValues : b = [NewBackend(spec) EXCEPT !.count = c]
    /\ calls = [t \in Tasks |-> IdleCall]
    /\ started = 0
    /\ selections = 0
    /\ received = [p \in DOMAIN b.codeCounter |-> 0]
    /\ bgBodies = NoBodies
    /\ UtilInit

NextIndex ==
    \/ HandleWithResponse(1)
    \/ HandleWithResponseDo(1)
    \/ HandleWithoutResponse(1)
    \/ HandleWithoutResponseDo(1)
    \/ Drain

SpecIndex == InitIndex /\ [][NextIndex]_vars

\* Validate and New applied to every configuration.
ConfigSpecs ==
    {MkSpec(l, f, LoadBalance(p, k), FALSE, FALSE) :
        l \in UNION {ServerLists(n) : n \in 0..MaxServers},
        f \in TagLists, p \in Policies, k \in {"", HeaderKey}}

InitConfig == spec \in ConfigSpecs /\ InitRest

NextConfig == Validate \/ ValidateLoadBalance \/ New

SpecConfig == InitConfig /\ [][NextConfig]_vars

\* NewDefault over lists of meta templates, valid and invalid, and
\* MatchMetaTemplate over every template up to MaxTemplateLen characters.
InitTemplate ==
    /\ spec \in DispatchSpecs
    /\ BackendInit
    /\ metaTemplates \in MetaLists
    /\ engine = NoEngine
    /\ matched = NoMatch
    /\ vr = NewValidateRecorder
    /\ recorded = NoRecord

NextTemplate == NewDefault \/ MatchMetaTemplate

SpecTemplate == InitTemplate /\ [][NextTemplate]_vars

\* The record* calls of a validation walk on a fresh ValidateRecorder, over
\* values that are or are not Validators and fields with and without tags.
InitRecorder ==
    /\ spec \in DispatchSpecs
    /\ BackendInit
    /\ UtilInit

NextRecorder == RecordJSONSchema \/ RecordFormat \/ RecordGeneral

SpecRecorder == InitRecorder /\ [][NextRecorder]_vars

----------------------------------------------------------------------------
(* Properties *)

CountIn(seq, x) == Cardinality({i \in 1..Len(seq) : seq[i] = x})

Policy  == spec.LoadBalance.Policy
PoolUrls == [i \in 1..Len(b.servers) |-> b.servers[i].URL]

\* a server carries every tag of the filter
CarriesFilter(s, server) == Range(s.ServersTags) \subseteq Range(server.Tags)

\* the effective pool, stated over the tag sets
EffectivePool(s) ==
    IF s.ServersTags = <<>> /\ \A i \in 1..Len(s.Servers) : s.Servers[i].Tags = <<>>
    THEN s.Servers
    ELSE SelectSeq(s.Servers, LAMBDA server : CarriesFilter(s, server))

\* task t has had a server selected for its current call
Selected(t) == calls[t].nth > 0

C2_PickServers == b.constructed => b.servers = EffectivePool(spec)

\* C2 witness: a two-tag filter keeps servers 1 and 3 and drops server 2, which
\* carries only one of the two tags
C2_Witness ==
    /\ b.constructed
    /\ spec.ServersTags = <<"v1", "v2">>
    /\ Len(spec.Servers) = 3
    /\ spec.Servers[2].Tags = <<"v1">>
    /\ b.servers = <<spec.Servers[1], spec.Servers[3]>>

\* C3: Spec.Validate returns an error exactly when the effective pool is
\* empty (Validate takes the spec alone: no request is involved).
C3_ValidateEmptyPool ==
    specErr # "unchecked" =>
        (specErr = "error" <=> Len(EffectivePool(spec)) = 0)

\* C3 witness: three configured servers, none carrying the filter: an error
C3_Witness ==
    /\ specErr = "error"
    /\ Len(spec.Servers) = 3
    /\ spec.ServersTags = <<"v2">>

\* C4: LoadBalance.Validate returns an error exactly for headerHash with an
\* empty header key.
C4_LoadBalanceValidate ==
    lbErr # "unchecked" =>
        IF Policy \in {policyRoundRobin, policyRandom, policyIPHash, policyUnknown}
        THEN lbErr = "nil"
        ELSE /\ Policy = policyHeaderHash
             /\ spec.LoadBalance.HeaderHashKey = "" => lbErr = "error"
             /\ spec.LoadBalance.HeaderHashKey # "" => lbErr = "nil"

\* C4 witness: headerHash without a key is rejected
C4_Witness ==
    /\ lbErr = "error"
    /\ Policy = policyHeaderHash
    /\ spec.LoadBalance.HeaderHashKey = ""

BeganOn(t) ==
    /\ started' = started + 1
    /\ \A u \in Tasks \ {t} : calls'[u] = calls[u]

\* the step is the return of client.Do on task t
DoReturnedOn(t) == calls[t].pc = "do" /\ calls'[t].pc # "do"

\* none of the registered callbacks is in the log of ctx
NoFuncRun(ctx, bk) == \A i \in 1..Len(ctx.log) : ctx.log[i] \notin Range(bk.responseGotFuncs)

\* C6: a cache hit ends HandleWithResponse at once: the Dispatcher (round-robin
\* counter, Code Counter) is unchanged, no server is selected, no outbound
\* request is issued, no callback runs, no completion hook is registered and
\* Store is not called.
C6_CacheHitStops ==
    [][\A t \in Tasks :
          (BeganOn(t) /\ calls'[t].cache = "hit") =>
              /\ b' = b
              /\ selections' = selections
              /\ received' = received
              /\ bgBodies' = bgBodies
              /\ calls'[t].pc = "done"
              /\ calls'[t].log = <<"Load">>
              /\ calls'[t].server = -1
              /\ calls'[t].hooks = 0
              /\ calls'[t].status = 0
              /\ calls'[t].tags = <<>>]_vars

\* C6 witness: a hit on a Dispatcher that has a callback registered and has
\* already selected servers
C6_Witness ==
    /\ b.constructed
    /\ Len(b.responseGotFuncs) > 0
    /\ b.count # U64(0)
    /\ calls[1].cache = "hit"
    /\ calls[1].pc = "done"

\* C7: after a cache miss Store is called exactly once, as the last call of
\* the handler, on every way out (failed request construction, transport
\* failure, success), and not before the handler is left.
C7_StoreOnEveryExit ==
    \A t \in Tasks :
        calls[t].cache = "miss" =>
            /\ calls[t].pc \in {"do", "done", "panic"}
            /\ calls[t].pc = "do" => CountIn(calls[t].log, "Store") = 0
            /\ calls[t].pc # "do" =>
                  /\ CountIn(calls[t].log, "Store") = 1
                  /\ calls[t].log[Len(calls[t].log)] = "Store"

\* C7 witness: one miss that ended in a transport failure, one that ended in
\* a response with a callback run
C7_Witness ==
    /\ calls[1].cache = "miss" /\ calls[1].pc = "done" /\ calls[1].got = DoErr
    /\ calls[2].cache = "miss" /\ calls[2].pc = "done" /\ calls[2].got = DoResp(200)
    /\ "fn1" \in Range(calls[2].log)

\* C8: a transport failure in HandleWithResponse sets status 503 and the
\* backendErr tag with the error text and stops: the Code Counter is not
\* updated, no callback runs, no completion hook is registered and client.Do
\* is not called again.
C8_TransportFailure ==
    [][\A t \in Tasks :
          (DoReturnedOn(t) /\ calls[t].kind = "with" /\ calls'[t].got = DoErr) =>
              /\ calls'[t].pc = "done"
              /\ calls'[t].status = StatusServiceUnavailable
              /\ <<"backendErr", DoErrText>> \in Range(calls'[t].tags)
              /\ b' = b
              /\ received' = received
              /\ "count" \notin Range(calls'[t].log)
              /\ NoFuncRun(calls'[t], b)
              /\ calls'[t].hooks = 0
              /\ CountIn(calls'[t].log, "Do") = 1
              /\ calls'[t].body = "none"]_vars

\* C8 witness: a failed outbound call on a Dispatcher with a callback registered
C8_Witness ==
    /\ b.constructed
    /\ Len(b.responseGotFuncs) > 0
    /\ calls[1].kind = "with"
    /\ calls[1].got = DoErr
    /\ calls[1].status = StatusServiceUnavailable

\* C9: a failed http.NewRequest stops the handler with no outbound call and no
\* Code Counter update; HandleWithResponse sets status 500 and the backendBug
\* tag, HandleWithoutResponse sets nothing.
C9_RequestConstructionFailure ==
    [][\A t \in Tasks :
          (BeganOn(t) /\ calls'[t].built = "failed") =>
              /\ calls'[t].pc = "done"
              /\ "Do" \notin Range(calls'[t].log)
              /\ "count" \notin Range(calls'[t].log)
              /\ b'.codeCounter = b.codeCounter
              /\ received' = received
              /\ bgBodies' = bgBodies
              /\ calls'[t].kind = "with" =>
                    /\ calls'[t].status = StatusInternalServerError
                    /\ <<"backendBug", NewReqErrText>> \in Range(calls'[t].tags)
              /\ calls'[t].kind = "without" =>
                    /\ calls'[t].status = 0
                    /\ Len(calls'[t].tags) = 1]_vars

\* C9 witness: the failure on both paths
C9_Witness ==
    /\ calls[1].kind = "with" /\ calls[1].built = "failed"
    /\ calls[2].kind = "without" /\ calls[2].built = "failed"

\* C10: whatever the interleaving, Codes() holds for each server URL and
\* status code exactly the number of responses received with that status from
\* that server.
C10_CodesMatchResponses == b.constructed => Codes(b) = received

\* C10 witness: two responses 200 from B counted, the second one received and
\* counted by task 1 while the call of task 2 is still inside client.Do
C10_Witness ==
    /\ b.constructed
    /\ Codes(b)[<<"B", 200>>] = 2
    /\ calls[1].nth = 3
    /\ calls[1].got = DoResp(200)
    /\ calls[2].nth = 2
    /\ calls[2].pc = "do"

\* position of the first occurrence of x in seq, 0 when there is none
IndexOf(seq, x) ==
    IF \E i \in 1..Len(seq) : seq[i] = x
    THEN CHOOSE i \in 1..Len(seq) : seq[i] = x /\ \A j \in 1..(i - 1) : seq[j] # x
    ELSE 0

\* the server the call of task t was sent to
ServerOf(t) == b.servers[calls[t].server + 1]

\* client.Do has returned a response to the HandleWithResponse call of task t
Succeeded(t) ==
    /\ calls[t].kind = "with"
    /\ calls[t].pc \in {"done", "finished"}
    /\ \E c \in BackendCodes : calls[t].got = DoResp(c)

\* C11: after a successful outbound call of HandleWithResponse the response
\* carries the status code the backend answered, which is the one counted in
\* the Code Counter for the selected server, the header of the backend's
\* response and, as its body, the duration wrapper around the backend's body.
C11_ResponsePropagated ==
    \A t \in Tasks :
        Succeeded(t) =>
            /\ calls[t].status = calls[t].got.StatusCode
            /\ Codes(b)[<<ServerOf(t).URL, calls[t].status>>] >= 1
            /\ CountIn(calls[t].log, "count") = 1
            /\ IndexOf(calls[t].log, "count") < IndexOf(calls[t].log, "SetStatusCode")
            /\ <<"backendCode", ToString(calls[t].got.StatusCode)>> \in Range(calls[t].tags)
            /\ calls[t].header = RespHeader(ServerOf(t))
            /\ calls[t].body = "duration(" \o RespBody(ServerOf(t)) \o ")"

\* C11 witness: a backend's own 503 from server B is passed on
C11_Witness ==
    /\ Succeeded(1)
    /\ calls[1].got = DoResp(503)
    /\ calls[1].status = 503
    /\ ServerOf(1).URL = "B"
    /\ calls[1].body = "duration(body of B)"

\* the names a registered callback can have
FuncNames == {FuncName(k) : k \in 1..MaxFuncs}

\* the callbacks called on ctx, in the order of the calls
FuncsRun(ctx) == SelectSeq(ctx.log, LAMBDA ev : ev \in FuncNames)

IsPrefix(s1, s2) == Len(s1) <= Len(s2) /\ \A i \in 1..Len(s1) : s1[i] = s2[i]

\* C12: OnResponseGot only appends to the callback list, and when
\* HandleWithResponse gets a response it calls every callback of the list,
\* once each and in the order of registration, after the status and the body
\* of the response are set and before it returns.  The list at that point
\* holds, as a prefix, every callback registered before the call started.
C12_CallbacksInOrder ==
    [][/\ (b.constructed /\ b'.constructed) =>
              IsPrefix(b.responseGotFuncs, b'.responseGotFuncs)
       /\ \A t \in Tasks :
              (DoReturnedOn(t) /\ calls[t].kind = "with" /\ ~calls'[t].got.err) =>
                  /\ FuncsRun(calls'[t]) = b.responseGotFuncs
                  /\ calls'[t].pc = "done"
                  /\ \A i \in 1..Len(calls'[t].log) :
                        calls'[t].log[i] \in FuncNames =>
                            /\ IndexOf(calls'[t].log, "SetStatusCode") \in 1..(i - 1)
                            /\ IndexOf(calls'[t].log, "SetBody") \in 1..(i - 1)
                            /\ IndexOf(calls'[t].log, "Do") \in 1..(i - 1)]_vars

\* C12 witness: two callbacks, the second registered while the call was
\* inside client.Do, both called in order
C12_Witness ==
    /\ Succeeded(1)
    /\ calls[1].nth = 1
    /\ calls[2].pc = "idle"
    /\ started = 1
    /\ FuncsRun(calls[1]) = <<"fn1", "fn2">>

\* C13, as stated: with an adaptor configured, a HandleWithResponse call that
\* got a response has run AdaptResponse exactly once, after the callbacks.
C13_AdaptResponseRuns ==
    \A t \in Tasks :
        (b.constructed /\ b.adaptor /\ Succeeded(t)) =>
            /\ CountIn(calls[t].log, "AdaptResponse") = 1
            /\ \A i \in 1..Len(calls[t].log) :
                  calls[t].log[i] \in FuncNames =>
                      i < IndexOf(calls[t].log, "AdaptResponse")

\* the tags of ctx with the given name
TagsNamed(ctx, name) == {i \in 1..Len(ctx.tags) : ctx.tags[i][1] = name}

\* C14: a successful HandleWithResponse call returns with the tags
\* backendAddr (the selected server) and backendCode (the backend's status)
\* and with exactly one completion hook registered; there is no
\* backendDuration tag until the context finishes, and then exactly one, the
\* time to the first byte plus the time spent reading the body.
C14_TagsAndDuration ==
    \A t \in Tasks :
        Succeeded(t) =>
            /\ <<"backendAddr", ServerOf(t).URL>> \in Range(calls[t].tags)
            /\ <<"backendCode", ToString(calls[t].got.StatusCode)>> \in Range(calls[t].tags)
            /\ Cardinality(TagsNamed(calls[t], "backendAddr")) = 1
            /\ Cardinality(TagsNamed(calls[t], "backendCode")) = 1
            /\ calls[t].hooks = 1
            /\ CountIn(calls[t].log, "OnFinish") = 1
            /\ calls[t].pc = "done" => TagsNamed(calls[t], "backendDuration") = {}
            /\ calls[t].pc = "finished" =>
                  /\ Cardinality(TagsNamed(calls[t], "backendDuration")) = 1
                  /\ <<"backendDuration", ToString(calls[t].firstByte + calls[t].bodyRead)>>
                        \in Range(calls[t].tags)

\* C14 witness: a finished successful call with 1 to the first byte and 2
\* spent reading the body
C14_Witness ==
    /\ Succeeded(1)
    /\ calls[1].pc = "finished"
    /\ calls[1].firstByte = 1
    /\ calls[1].bodyRead = 2
    /\ <<"backendDuration", "3">> \in Range(calls[1].tags)

\* C15: HandleWithoutResponse leaves the caller's response alone on every
\* path: no status code, header or body is set, no callback is called and no
\* completion hook is registered.  A transport failure adds the
\* mirrorBackendFailed tag and nothing else, and the call returns normally.
C15_MirrorLeavesResponse ==
    \A t \in Tasks :
        calls[t].kind = "without" =>
            /\ calls[t].status = 0
            /\ calls[t].header = "none"
            /\ calls[t].body = "none"
            /\ calls[t].hooks = 0
            /\ NoFuncRun(calls[t], b)
            /\ Range(calls[t].log) \cap {"SetStatusCode", "AddFromStd", "SetBody", "OnFinish"} = {}
            /\ calls[t].got = DoErr =>
                  /\ calls[t].pc = "done"
                  /\ calls[t].tags = << <<"mirrorBackendAddr", ServerOf(t).URL>>,
                                        <<"mirrorBackendFailed", DoErrText>> >>

\* C15 witness: with a callback registered, one mirrored call ended in a
\* transport failure, one in a failed http.NewRequest
C15_Witness ==
    /\ b.constructed
    /\ Len(b.responseGotFuncs) > 0
    /\ calls[1].kind = "without" /\ calls[1].got = DoErr /\ calls[1].pc = "done"
    /\ calls[2].kind = "without" /\ calls[2].built = "failed" /\ calls[2].pc = "done"

\* C16: when a mirrored call gets a response, HandleWithoutResponse counts the
\* status code and returns in that same step, with the body still open and
\* handed to one new goroutine; every open body is owned by exactly one
\* running goroutine, whose end closes it however the copy ended; and every
\* body handed over is closed in the end.
C16_MirrorBodyDrained ==
    /\ [][\A t \in Tasks :
              (DoReturnedOn(t) /\ calls[t].kind = "without" /\ ~calls'[t].got.err) =>
                  /\ calls'[t].pc = "done"
                  /\ CountIn(calls'[t].log, "count") = 1
                  /\ b'.codeCounter # b.codeCounter
                  /\ bgBodies'.running = bgBodies.running + 1
                  /\ bgBodies'.open = bgBodies.open + 1]_vars
    /\ [](bgBodies.open = bgBodies.running)
    /\ (bgBodies.open > 0) ~> (bgBodies.open = 0)

\* C16 witness: HandleWithoutResponse has returned and the body of the
\* response it got is still open, in the hands of a goroutine
C16_Witness ==
    /\ calls[1].kind = "without"
    /\ calls[1].pc = "done"
    /\ calls[1].got = DoResp(200)
    /\ bgBodies = [running |-> 1, open |-> 1]

\* every request the hashing policies can tell apart
AllRequests == {Request(ip, h) : ip \in IPs, h \in Headers}

\* the configured header's value, as headerHash reads it
HashedValue(req) == HeaderGet(req.Header, spec.LoadBalance.HeaderHashKey)

\* C17: over a non-empty pool ipHash and headerHash choose by the client IP,
\* respectively the configured header's value, alone: on every Dispatcher New
\* builds, two requests with the same key get the same server whatever the
\* round-robin counter is and whatever the rest of the request is, and the
\* selection leaves the counter as it was; and a call with the same key as
\* the call before it on the same task is sent to the same server.
C17_HashStateFree ==
    [][/\ (~b.constructed /\ b'.constructed /\ Len(b'.servers) > 0) =>
              \A r1, r2 \in AllRequests : \A c \in CounterValues :
                  LET bc == [b' EXCEPT !.count = c]
                  IN  /\ r1.RealIP = r2.RealIP =>
                            /\ ipHash(bc, r1).index = ipHash(b', r2).index
                            /\ ipHash(bc, r1).index \in 0..(Len(b'.servers) - 1)
                            /\ ipHash(bc, r1).count = c
                      /\ HashedValue(r1) = HashedValue(r2) =>
                            /\ headerHash(bc, spec.LoadBalance, r1).index =
                                  headerHash(b', spec.LoadBalance, r2).index
                            /\ headerHash(bc, spec.LoadBalance, r1).index
                                  \in 0..(Len(b'.servers) - 1)
                            /\ headerHash(bc, spec.LoadBalance, r1).count = c
       /\ \A t \in Tasks :
              (BeganOn(t) /\ Selected(t) /\ calls'[t].nth > 0 /\ Len(b.servers) > 0) =>
                  /\ (Policy = policyIPHash /\
                      calls'[t].req.RealIP = calls[t].req.RealIP) =>
                          calls'[t].server = calls[t].server /\ b'.count = b.count
                  /\ (Policy = policyHeaderHash /\
                      HashedValue(calls'[t].req) = HashedValue(calls[t].req)) =>
                          calls'[t].server = calls[t].server /\ b'.count = b.count]_vars

\* C17 witness: over the pool {A, B} a third request from 10.0.0.2 is sent to
\* A, where 10.0.0.1 would be sent to B
C17_Witness ==
    /\ b.constructed
    /\ Policy = policyIPHash
    /\ PoolUrls = <<"A", "B">>
    /\ calls[1].nth = 3
    /\ calls[1].req.RealIP = "10.0.0.2"
    /\ calls[1].server = 0
    /\ ipHash(b, Request("10.0.0.1", <<>>)).index = 1

\* C18: under headerHash a request without the configured header is sent
\* where a request carrying that header with the empty value is sent, and
\* the selection does not fail: no panic, no error status from it.
C18_MissingHeaderAsEmpty ==
    \A t \in Tasks :
        (b.constructed /\ Policy = policyHeaderHash /\ Len(b.servers) > 0 /\
         Selected(t) /\ calls[t].req.Header = <<>>) =>
            /\ calls[t].pc # "panic"
            /\ calls[t].server =
                  headerHash(b, spec.LoadBalance,
                             Request(calls[t].req.RealIP, << <<HeaderKey, "">> >>)).index
            /\ calls[t].server \in 0..(Len(b.servers) - 1)
            /\ calls[t].built = "ok" => calls[t].status # StatusInternalServerError

\* C18 witness: over the pool {A, B, C} a request without the header goes to
\* B, where the value "u1" would go to A
C18_Witness ==
    /\ b.constructed
    /\ Policy = policyHeaderHash
    /\ PoolUrls = <<"A", "B", "C">>
    /\ Selected(1)
    /\ calls[1].req.Header = <<>>
    /\ calls[1].server = 1
    /\ headerHash(b, spec.LoadBalance, Request("10.0.0.1", << <<HeaderKey, "u1">> >>)).index = 0

KnownPolicies == {policyRoundRobin, policyRandom, policyIPHash, policyHeaderHash}

\* C19: with a policy value that is none of the four, a selection over a
\* non-empty pool does not fail: it takes the server roundRobin takes, the
\* k-th selection index k mod N, and it advances the counter by one.
C19_UnknownPolicyRoundRobin ==
    [][\A t \in Tasks :
          (BeganOn(t) /\ calls'[t].nth > 0 /\ Policy \notin KnownPolicies /\
           Len(b.servers) > 0) =>
              /\ calls'[t].pc \in {"do", "done"}
              /\ calls'[t].server = roundRobin(b).index
              /\ calls'[t].server = calls'[t].nth % Len(b.servers)
              /\ b'.count = AddUint64(b.count)
              /\ b'.count = U64(selections')
              /\ calls'[t].built = "ok" => calls'[t].status = 0]_vars

\* C19 witness: the second selection under the policy "leastConn" over the
\* pool {A, B, C} takes C
C19_Witness ==
    /\ b.constructed
    /\ Policy = policyUnknown
    /\ PoolUrls = <<"A", "B", "C">>
    /\ calls[1].nth = 2
    /\ calls[1].server = 2
    /\ b.count = U64(2)

\* C20, as stated: over a pool of N > 0 servers every policy returns an index
\* in [0, N), whatever the value of the 64-bit round-robin counter and of the
\* 32-bit hash: no selection panics and every selected index is in range.
C20_IndexInRange ==
    (b.constructed /\ Len(b.servers) > 0) =>
        \A t \in Tasks :
            /\ calls[t].pc # "panic"
            /\ Selected(t) => calls[t].server \in 0..(Len(b.servers) - 1)

\* C21: however the round-robin selections of concurrent HandleWithResponse
\* and HandleWithoutResponse calls interleave, the k-th of them reads the
\* counter value k, which no other selection reads, and takes index k mod N;
\* after K selections the counter is K; steps that select nothing leave the
\* counter alone; and the selection counts whether or not the request is
\* built, sent or answered afterwards.
C21_ConcurrentRoundRobin ==
    [][/\ b.constructed => b.count = U64(selections)
       /\ (b.constructed /\ selections' = selections) => b'.count = b.count
       /\ \A t \in Tasks :
              (calls'[t].nth > 0 /\ calls'[t] # calls[t] /\ BeganOn(t)) =>
                  /\ selections' = selections + 1
                  /\ b'.count = U64(selections + 1)
                  /\ calls'[t].nth = selections + 1
                  /\ calls'[t].server = (selections + 1) % Len(b.servers)
       /\ \A t \in Tasks : \A u \in (t + 1)..NumTasks :
              (Selected(t) /\ Selected(u)) => calls[t].nth # calls[u].nth
       /\ \A t \in Tasks : Selected(t) => calls[t].nth \in 1..selections]_vars

\* C21 witness: three selections, the second by a mirrored call whose request
\* could not be built, the third by a HandleWithResponse call made while the
\* counter stood at 2
C21_Witness ==
    /\ b.constructed
    /\ b.count = U64(3)
    /\ calls[1].kind = "with" /\ calls[1].nth = 3 /\ calls[1].server = 1
    /\ calls[1].got = DoErr
    /\ calls[2].kind = "without" /\ calls[2].nth = 2 /\ calls[2].server = 0
    /\ calls[2].built = "failed"

\* the tags of the template handed to the last MatchMetaTemplate call, and
\* the tags of the meta templates registered with the engine (none with the
\* dummy engine NewDefault gives for a list it rejects)
TemplateTags == stringsSplit(matched.template, DefaultSepertor)
RegisteredMetas ==
    IF engine.kind = "TextTemplate"
    THEN {stringsSplit(engine.metaTemplates[i], DefaultSepertor) :
              i \in 1..Len(engine.metaTemplates)}
    ELSE {}

EndsInGJSON(meta) == meta[Len(meta)] = GJSONTag
TagCovered(tag, metaTag) == metaTag = WidecardTag \/ tag = metaTag

\* tag-for-tag over the whole meta template: no tag of the template empty,
\* each equal to the meta tag or under a {} wildcard, the tags from the place
\* of a final {gjson} on under that {gjson}
MatchesMeta(tags, meta) ==
    /\ \A i \in 1..Len(tags) : Len(tags[i]) # 0
    /\ IF EndsInGJSON(meta)
       THEN /\ Len(tags) >= Len(meta)
            /\ \A i \in 1..(Len(meta) - 1) : TagCovered(tags[i], meta[i])
       ELSE /\ Len(tags) = Len(meta)
            /\ \A i \in 1..Len(meta) : TagCovered(tags[i], meta[i])

\* what a match of `meta` returns: the template, or its tags before the
\* place of {gjson} followed by {gjson}
MatchResult(tags, meta) ==
    IF EndsInGJSON(meta)
    THEN stringsJoin(SubSeq(tags, 1, Len(meta) - 1), DefaultSepertor)
             \o DefaultSepertor \o GJSONTag
    ELSE matched.template

\* C22: MatchMetaTemplate returns "" for every template that matches no
\* registered meta template tag-for-tag over the whole meta template -- in
\* particular one with an empty tag, with more tags than the meta template,
\* or that is only a proper prefix of a meta template -- and otherwise the
\* template itself, or the matched prefix followed by {gjson}.
C22_MatchMetaTemplate ==
    matched.called =>
        IF \E meta \in RegisteredMetas : MatchesMeta(TemplateTags, meta)
        THEN \E meta \in RegisteredMetas :
                 /\ MatchesMeta(TemplateTags, meta)
                 /\ matched.result = MatchResult(TemplateTags, meta)
        ELSE matched.result = <<>>

\* the step is a recordGeneral call on a value whose Validate() does `does`
RecordGeneralOf(does) ==
    /\ recorded'.n = recorded.n + 1
    /\ recorded'.op = "recordGeneral"
    /\ recorded'.val.validator \in does

NoErrorRecorded(r) ==
    /\ r.JSONSchemaErrs = <<>> /\ r.FormatErrs = <<>>
    /\ r.GeneralErrs = <<>> /\ r.SystemErr = ""

\* C23: Valid() is true exactly when no JSON-schema, format, general or
\* system error has been recorded; a panic inside Validate() during
\* recordGeneral does not reach the caller but is recorded as the system
\* error, after which Valid() is false; and an error returned by Validate()
\* appends exactly one general error.
C23_RecorderValid ==
    [][/\ Valid(vr') <=> NoErrorRecorded(vr')
       /\ RecordGeneralOf({"panic", "panicNil"}) =>
              /\ recorded'.returned = "normal"
              /\ vr'.SystemErr # ""
              /\ ~Valid(vr')
       /\ RecordGeneralOf({"error"}) =>
              /\ Len(vr'.GeneralErrs) = Len(vr.GeneralErrs) + 1
              /\ SubSeq(vr'.GeneralErrs, 1, Len(vr.GeneralErrs)) = vr.GeneralErrs
              /\ vr'.JSONSchemaErrs = vr.JSONSchemaErrs
              /\ vr'.FormatErrs = vr.FormatErrs
              /\ vr'.SystemErr = vr.SystemErr]_vars

====
